---- MODULE Spec2Model ----
(***************************************************************************)
(* The three-stage pipeline of theta_client: ThetaClient.request_data      *)
(* submits one Job per URL to the fetch stage (HTTPWorker), which hands    *)
(* them to the decode stage (ResponseProcessor), which hands them to the   *)
(* finalize stage (FileWriter).  Every stage is a QueueWorker: a queue, a  *)
(* count of unfinished tasks (queue.Queue.join), a running flag, a         *)
(* first-exception latch and its worker threads.                           *)
(***************************************************************************)
EXTENDS Integers, Sequences, FiniteSets, TLC

\* Bounds of the model.
MaxJobs == 2        \* URLs in one key map, all keys together
NumThreads == 2     \* num_threads of the fetch stage
NumCallers == 3     \* threads that construct a ThetaClient
MaxStarts == 2      \* start() calls of one stage that spawn threads
MaxCalls == 5       \* start(), stop() and add_job() calls on one stage
MaxBody == 3        \* letters in a response body
NumDays == 6        \* calendar days a request's range is taken from

None == "None"

\* None where a Job is expected.
NoJob == <<0, 0>>

\* The stages, in chain order (client.py:57-61).
HTTP == "http_worker"
PROC == "response_processor"
WRITER == "file_writer"
Stages == {HTTP, PROC, WRITER}

\* QueueWorker.chain_to as wired by ThetaClient.__init__.
chained_worker(s) ==
    CASE s = HTTP -> PROC
      [] s = PROC -> WRITER
      [] OTHER -> None

\* num_threads of each stage: HTTPWorker gets the client's, the others 1.
num_threads(s) == IF s = HTTP THEN NumThreads ELSE 1

Workers == {w \in Stages \X (1..NumThreads) : w[2] <= num_threads(w[1])}

Keys == 1..MaxJobs
AllJobs == Keys \X (1..MaxJobs)

RECURSIVE SumSeq(_)
SumSeq(s) == IF s = <<>> THEN 0 ELSE Head(s) + SumSeq(Tail(s))

\* The key maps get_key_map can return: key k (an index) maps to a non-empty
\* URL list, here its length.  The empty map is the weekend-only range.
KeyMaps ==
    {km \in UNION {[1..n -> 1..MaxJobs] : n \in 0..MaxJobs} : SumSeq(km) <= MaxJobs}

\* What the upstream service answers for one URL.
Responses == {"ok", "bad_csv", "nodata", "http_error"}

\* A response in full: its status code and its body, a text of at most
\* MaxBody letters.  NoDataText stands for the text "No data found for your
\* request" (http_worker.py:54), two letters long here.
Letters == {"N", "d", "x"}
Texts == UNION {[1..n -> Letters] : n \in 0..MaxBody}
NoDataText == <<"N", "d">>
StatusCodes == {200, 204, 301, 404, 472, 500}
HttpResponses == [status_code : StatusCodes, text : Texts]
NoResponse == [status_code |-> 0, text |-> <<>>]

\* The enums of requests.py (19-56), each member as its value; an Interval
\* member as its name and its value.
STOCK == "stock"
OPTION == "option"
AssetClass == {STOCK, OPTION}
HISTORY == "history"
EOD == "eod"
QUOTE == "quote"
TRADE == "trade"
TRADE_QUOTE == "trade_quote"
GREEKS_FIRST_ORDER == "greeks/first_order"
GREEKS_EOD == "greeks/eod"
Endpoint == {EOD, QUOTE, TRADE, TRADE_QUOTE, GREEKS_FIRST_ORDER, GREEKS_EOD}
M15 == [name |-> "M15", value |-> "15m"]
H1 == [name |-> "H1", value |-> "1h"]
Interval == {M15, H1}
DAILY == "daily"
MONTHLY == "monthly"
FileGranularity == {DAILY, MONTHLY}
THETA_BASE_URL == "http://0.0.0.0:25503/v3"

\* The calendar days from Tuesday 2024-12-31 on.  A date of the program, a
\* string YYYYMMDD, is here the number n of its day, AllDays[n] giving the
\* slices date[:4], date[4:6] and date[6:].
AllDays ==
    << [year |-> "2024", month |-> "12", day |-> "31"],
       [year |-> "2025", month |-> "01", day |-> "01"],
       [year |-> "2025", month |-> "01", day |-> "02"],
       [year |-> "2025", month |-> "01", day |-> "03"],
       [year |-> "2025", month |-> "01", day |-> "04"],
       [year |-> "2025", month |-> "01", day |-> "05"],
       [year |-> "2025", month |-> "01", day |-> "06"],
       [year |-> "2025", month |-> "01", day |-> "07"] >>
Days == 1..NumDays

\* The date as the string YYYYMMDD.
Ymd(n) == AllDays[n].year \o AllDays[n].month \o AllDays[n].day

\* datetime.weekday(): Monday is 0.
weekday(n) == n % 7

NoRequest == [cls |-> None]
NoResult == [raised |-> FALSE, key_map |-> <<>>]

VARIABLES
    pc,             \* where request_data is
    store,          \* object keys present in the bucket
    force_refresh,  \* request.force_refresh
    key_map,        \* request.get_key_map()
    response,       \* the upstream's answer to each Job's GET, once given
    to_submit,      \* Jobs request_data has still to add_job
    fwj,            \* the FileWriteJob of each key
    csv_buffer,     \* Job.csv_buffer
    input_queue,    \* QueueWorker.input_queue, per stage
    unfinished,     \* input_queue.unfinished_tasks, per stage
    running,        \* QueueWorker._running, per stage
    exception,      \* QueueWorker._exception, per stage: the Job that raised
    wpc,            \* where each worker thread is in _work
    cur,            \* the Job a worker thread holds
    put_calls,      \* put_object calls made so far, per key
    skip_seen,      \* "file skipped" observations, per key
    added,          \* Jobs handed to each stage by add_job
    processed,      \* Jobs each stage has called process() on
    store_at_call,  \* the bucket's keys when request_data was entered
    also_store,     \* object keys present in some other bucket of the server
    prior,          \* how the previous request_data call ended, and its puts
    client_running, \* ThetaClient._running
    closed,         \* HTTPWorker.httpx_client was closed
    error,          \* what made request_data raise
    cls_instance,   \* ThetaClient._instance: an object id, 0 for None
    cls_lock,       \* the caller holding ThetaClient._lock, 0 when free
    ctor_pc,        \* where each caller is in ThetaClient(...)
    ctor_arg,       \* the num_threads each caller passes
    ctor_ret,       \* the object __new__ returned to each caller, 0 before
    objects,        \* objects made by super().__new__ so far
    inits,          \* __init__ runs completed so far
    self_num_threads, \* ThetaClient.num_threads
    self_stages,    \* which stage objects the instance holds: the n-th made
    caught,         \* per stage, the Jobs whose process() raised, in the
                    \* order their threads took _exception_lock
    reraised,       \* the Job whose exception check_for_errors raised
    times,          \* per stage and Job, the process() calls made on it
    tpc,            \* where each thread ever spawned for a stage is in _work
    tjob,           \* the Job such a thread holds
    tracked,        \* QueueWorker._threads
    spawned,        \* threads spawned for the stage so far
    op,             \* "joining" while stop() waits in its joins
    ncalls,         \* start(), stop() and add_job() calls made on the stage
    last_call,      \* the last of them
    process_pc,     \* where one HTTPWorker.process call is
    http_response,  \* the response its GET returned
    job_csv_buffer, \* job.csv_buffer as that call leaves it
    result_queue,   \* DataFrameCollector._result_queue: <<key, df>> pairs
    plan_pc,        \* where the caller of the planner is
    request,        \* the request object: the fields __init__ assigned
    calendar,       \* the dates the calendar endpoint lists, as day numbers
    calendar_gets,  \* GETs made to the calendar endpoint
    final_dates,    \* final_dates of get_key_map, in the set's iteration order
    outcome         \* what get_key_map returned, or that it raised

vars == <<pc, store, force_refresh, key_map, response, to_submit, fwj,
          csv_buffer, input_queue, unfinished, running, exception, wpc, cur,
          put_calls, skip_seen, added, processed, store_at_call, also_store,
          prior, client_running, closed, error, cls_instance, cls_lock,
          ctor_pc, ctor_arg, ctor_ret, objects, inits, self_num_threads,
          self_stages, caught, reraised, times, tpc, tjob, tracked, spawned,
          op, ncalls, last_call, process_pc, http_response, job_csv_buffer,
          result_queue, plan_pc, request, calendar, calendar_gets,
          final_dates, outcome>>

\* What only request_data and the workers' bookkeeping write.
obsVars == <<added, processed, times, store_at_call>>

coordVars == <<pc, store, force_refresh, key_map, response, to_submit>>

\* What only the coordinator writes, besides coordVars.
clientVars == <<client_running, closed, error, reraised>>

\* What no step of the pipeline writes.
\* The class attributes of ThetaClient, the constructor calls and the fields
\* __init__ assigns.
classVars == <<cls_instance, cls_lock, ctor_pc, ctor_arg, ctor_ret, objects,
               inits, self_num_threads, self_stages>>

\* One stage driven through start(), stop() and add_job() directly.
lifeVars == <<tpc, tjob, tracked, spawned, op, ncalls, last_call>>

\* One HTTPWorker.process call on one response.
fetchVars == <<process_pc, http_response, job_csv_buffer>>

\* What the streaming run writes besides the pipeline's variables.
streamVars == <<result_queue>>

\* A request constructed and planned.
planVars == <<plan_pc, request, calendar, calendar_gets, final_dates, outcome>>

\* What the runs of single parts of the program write.
unitVars == <<fetchVars, streamVars, planVars>>

otherVars == <<also_store, prior, classVars, lifeVars, unitVars>>

\* FileWriteJob as constructed by request_data (job.py:22-36).
NoFwj == [created |-> FALSE, total_items |-> 0, completed_items |-> 0,
          completed |-> FALSE, skipped_items |-> FALSE, tables |-> <<>>]

\* A FileWriteJob constructed with total_items = 1 whatever the URL list.
FileWriteJob_single(n) ==
    [created |-> TRUE, total_items |-> 1, completed_items |-> 0,
     completed |-> FALSE, skipped_items |-> FALSE, tables |-> <<>>]

FileWriteJob(n) == [created |-> TRUE, total_items |-> n, completed_items |-> 0,
                    completed |-> FALSE, skipped_items |-> FALSE, tables |-> <<>>]

\* No request_data call was made before.
NoPrior == [outcome |-> "none", put_calls |-> [k \in Keys |-> 0]]

\* The client after construction, its stages not yet started.
NewClient ==
    /\ pc = "call"
    /\ force_refresh = FALSE
    /\ key_map = <<>>
    /\ response = [j \in AllJobs |-> "pending"]
    /\ to_submit = <<>>
    /\ fwj = [k \in Keys |-> NoFwj]
    /\ csv_buffer = [j \in AllJobs |-> None]
    /\ input_queue = [s \in Stages |-> <<>>]
    /\ unfinished = [s \in Stages |-> 0]
    /\ running = [s \in Stages |-> FALSE]
    /\ exception = [s \in Stages |-> NoJob]
    /\ wpc = [w \in Workers |-> "unborn"]
    /\ cur = [w \in Workers |-> NoJob]
    /\ put_calls = [k \in Keys |-> 0]
    /\ skip_seen = [k \in Keys |-> 0]
    /\ added = [s \in Stages |-> {}]
    /\ processed = [s \in Stages |-> {}]
    /\ store_at_call = {}
    /\ prior = NoPrior
    /\ client_running = FALSE
    /\ closed = FALSE
    /\ error = None
    /\ caught = [s \in Stages |-> <<>>]
    /\ reraised = NoJob
    /\ times = [s \in Stages |-> [j \in AllJobs |-> 0]]

\* The threads start() can spawn for one stage within MaxStarts starts.
Threads == 1..(NumThreads * MaxStarts)

\* A stage as QueueWorker.__init__ leaves it, no thread spawned.
NoThreads ==
    /\ tpc = [i \in Threads |-> "unborn"]
    /\ tjob = [i \in Threads |-> NoJob]
    /\ tracked = {}
    /\ spawned = 0
    /\ op = "ready"
    /\ ncalls = 0
    /\ last_call = "none"

Callers == 1..NumCallers

\* The num_threads a caller may pass.
ThreadArgs == {1, NumThreads}

\* The class before any construction.
NoInstance ==
    /\ cls_instance = 0
    /\ cls_lock = 0
    /\ ctor_pc = [c \in Callers |-> "idle"]
    /\ ctor_arg = [c \in Callers |-> 0]
    /\ ctor_ret = [c \in Callers |-> 0]
    /\ objects = 0
    /\ inits = 0
    /\ self_num_threads = 0
    /\ self_stages = 0

\* Caller 1 has constructed the client with num_threads = NumThreads.
Constructed ==
    /\ cls_instance = 1
    /\ cls_lock = 0
    /\ ctor_pc = [c \in Callers |-> IF c = 1 THEN "done" ELSE "idle"]
    /\ ctor_arg = [c \in Callers |-> IF c = 1 THEN NumThreads ELSE 0]
    /\ ctor_ret = [c \in Callers |-> IF c = 1 THEN 1 ELSE 0]
    /\ objects = 1
    /\ inits = 1
    /\ self_num_threads = NumThreads
    /\ self_stages = 1

\* process() not called on its own.
NoFetch ==
    /\ process_pc = "idle"
    /\ http_response = NoResponse
    /\ job_csv_buffer = None

\* The caller's result queue, empty.
NoStream == result_queue = <<>>

\* No request constructed.
NoPlan ==
    /\ plan_pc = "new"
    /\ request = NoRequest
    /\ calendar = {}
    /\ calendar_gets = 0
    /\ final_dates = <<>>
    /\ outcome = NoResult

NoUnit == NoFetch /\ NoStream /\ NoPlan

\* No step reads the other buckets (file_exists stats raw_bucket only), so
\* their content is left out of the pipeline's initial states.
Init ==
    /\ NewClient
    /\ Constructed
    /\ NoThreads
    /\ NoUnit
    /\ store \in SUBSET Keys
    /\ also_store = {}

\* The server also holds a bucket such as "enriched-td" with some of the keys
\* that raw_bucket lacks.
InitCheckBuckets ==
    /\ NewClient
    /\ Constructed
    /\ NoThreads
    /\ NoUnit
    /\ store \in SUBSET Keys
    /\ also_store \in SUBSET (Keys \ store)
    /\ also_store # {}

----------------------------------------------------------------------------
\* FileWriteJob (job.py)

\* _increment without the completion edge.
increment_nolatch(f) == [f EXCEPT !.completed_items = @ + 1]

\* _increment that sets completed one item late.
increment_past(f) ==
    LET n == f.completed_items + 1
    IN  [f EXCEPT !.completed_items = n,
                  !.completed = IF n = f.total_items + 1 THEN TRUE ELSE @]

\* FileWriteJob._increment
increment(f) ==
    LET n == f.completed_items + 1
    IN  [f EXCEPT !.completed_items = n,
                  !.completed = IF n = f.total_items THEN TRUE ELSE @]

\* add_table that appends without counting the item.
add_table_nocount(f, table) == [f EXCEPT !.tables = Append(@, table)]

\* FileWriteJob.add_table
add_table(f, table) == increment([f EXCEPT !.tables = Append(@, table)])

\* mark_item_skipped that forgets the flag.
mark_item_skipped_noflag(f) == increment(f)

\* FileWriteJob.mark_item_skipped
mark_item_skipped(f) == increment([f EXCEPT !.skipped_items = TRUE])

----------------------------------------------------------------------------
\* The stages' process() methods, as what they decide

\* HTTPWorker.process without the 472 branch: raise_for_status sees the 472.
http_process_no472(answer) ==
    CASE answer \in {"nodata", "http_error"} -> "raise"
      [] OTHER -> answer

\* HTTPWorker.process: "raise", or the csv_buffer it leaves on the Job.
http_process(answer) ==
    CASE answer = "nodata" -> None
      [] answer = "http_error" -> "raise"
      [] OTHER -> answer

\* ResponseProcessor.process: what it does with the Job's csv_buffer.
decode_process(buffer) ==
    CASE buffer = None -> "skip"
      [] buffer = "bad_csv" -> "raise"
      [] OTHER -> "table"

\* FileWriter.process without the skipped_items test.
writer_process_noskip(f) ==
    CASE ~f.completed -> "nothing"
      [] f.tables # <<>> -> "put"
      [] OTHER -> "nothing"

\* FileWriter.process without the completed test.
writer_process_nocomplete(f) ==
    CASE f.skipped_items -> "skipped"
      [] f.tables # <<>> -> "put"
      [] OTHER -> "nothing"

\* FileWriter.process: what it does on a Job of FileWriteJob f.
writer_process(f) ==
    CASE ~f.completed -> "nothing"
      [] f.skipped_items -> "skipped"
      [] f.tables # <<>> -> "put"
      [] OTHER -> "nothing"

\* file_exists that finds nothing.
file_exists_never(k) == FALSE

\* FileWriter.file_exists
file_exists(k) == k \in store

\* The filter without the existence check.
to_process_always(k, force) == TRUE

\* The filter that ignores force_refresh.
to_process_noforce(k, force) == ~file_exists(k)

\* The filter of request_data for one key of the key map.
to_process(k, force) == ~(~force /\ file_exists(k))

\* QueueWorker.check_for_errors raises
check_for_errors(s) == exception[s] # NoJob

----------------------------------------------------------------------------
\* ThetaClient.request_data

\* Only the first URL of key k becomes a Job.
JobsOfKey_first(km, k) == <<<<k, 1>>>>

\* The Jobs of key k, in URL order.
JobsOfKey(km, k) == [i \in 1..km[k] |-> <<k, i>>]

RECURSIVE JobsFrom(_, _, _)
JobsFrom(km, k, force) ==
    IF k > Len(km) THEN <<>>
    ELSE (IF to_process(k, force) THEN JobsOfKey(km, k) ELSE <<>>)
         \o JobsFrom(km, k + 1, force)

Range(s) == {s[i] : i \in DOMAIN s}

\* QueueWorker.start, for every stage (ThetaClient._start): the flag, the
\* latch reset and the threads spawned.
start_all ==
    /\ running' = [s \in Stages |-> TRUE]
    /\ exception' = [s \in Stages |-> NoJob]
    /\ caught' = [s \in Stages |-> <<>>]
    /\ wpc' = [w \in Workers |-> "idle"]

\* Entry of request_data: _start(), the planner, the existence filter.  With
\* nothing to submit the call goes straight to the wait for the fetch stage.
request_data ==
    /\ pc = "call"
    /\ \E km \in KeyMaps, force \in BOOLEAN :
         LET jobs == JobsFrom(km, 1, force) IN
         /\ key_map' = km
         /\ force_refresh' = force
         /\ to_submit' = jobs
         /\ pc' = IF jobs = <<>> THEN "wait_http" ELSE "submit"
    /\ start_all
    /\ client_running' = TRUE
    /\ store_at_call' = store
    /\ UNCHANGED <<otherVars, store, response, fwj, csv_buffer, input_queue, unfinished,
                   cur, put_calls, skip_seen, added, processed, times, closed, error, reraised>>

\* request_data whose planner raises only after the first key's FileWriteJob
\* was made and its first Job was submitted.
request_data_raises_late ==
    /\ pc = "call"
    /\ error' = "planner"
    /\ fwj' = [fwj EXCEPT ![1] = FileWriteJob(1)]
    /\ input_queue' = [input_queue EXCEPT ![HTTP] = Append(@, <<1, 1>>)]
    /\ unfinished' = [unfinished EXCEPT ![HTTP] = @ + 1]
    /\ added' = [added EXCEPT ![HTTP] = @ \cup {<<1, 1>>}]
    /\ force_refresh' = FALSE
    /\ start_all
    /\ client_running' = TRUE
    /\ store_at_call' = store
    /\ pc' = "raised"
    /\ UNCHANGED <<otherVars, store, key_map, response, to_submit, csv_buffer,
                   cur, put_calls, skip_seen, processed, times, closed,
                   reraised>>

\* request_data raises before its try block: get_key_map fails (the calendar
\* is unreachable or unparseable), or stat_object fails with something that
\* is no S3Error (file_exists runs only without force_refresh).  _start() has
\* run; nothing calls _stop().
request_data_raises ==
    /\ pc = "call"
    /\ \/ /\ error' = "planner"
          /\ UNCHANGED key_map
       \/ /\ error' = "exists"
          /\ \E km \in KeyMaps : km # <<>> /\ key_map' = km
    /\ force_refresh' = FALSE
    /\ start_all
    /\ client_running' = TRUE
    /\ store_at_call' = store
    /\ pc' = "raised"
    /\ UNCHANGED reraised
    /\ UNCHANGED <<otherVars, store, response, to_submit, fwj, csv_buffer,
                   input_queue, unfinished, cur, put_calls, skip_seen, added,
                   processed, times, closed>>

\* QueueWorker.add_job
add_job(q, job) == Append(q, job)

\* One turn of the submission loop: the FileWriteJob is constructed with the
\* key's first URL, and the Job goes to the fetch stage.
submit ==
    /\ pc = "submit"
    /\ to_submit # <<>>
    /\ LET job == Head(to_submit)
           k == job[1]
       IN  /\ fwj' = IF job[2] = 1
                     THEN [fwj EXCEPT ![k] = FileWriteJob(key_map[k])]
                     ELSE fwj
           /\ input_queue' = [input_queue EXCEPT ![HTTP] = add_job(@, job)]
           /\ unfinished' = [unfinished EXCEPT ![HTTP] = @ + 1]
           /\ added' = [added EXCEPT ![HTTP] = @ \cup {job}]
    /\ to_submit' = Tail(to_submit)
    /\ pc' = IF Tail(to_submit) = <<>> THEN "wait_http" ELSE "submit"
    /\ UNCHANGED <<otherVars, store, force_refresh, key_map, response, csv_buffer,
                   running, exception, caught, wpc, cur, put_calls, skip_seen,
                   processed, times, store_at_call, client_running, closed, error, reraised>>

WaitPc(s) ==
    CASE s = HTTP -> "wait_http"
      [] s = PROC -> "wait_proc"
      [] OTHER -> "wait_writer"

AfterWait(s) ==
    CASE s = HTTP -> "wait_proc"
      [] s = PROC -> "wait_writer"
      [] OTHER -> "returned"

\* wait_for_completion that does not block.
wait_for_completion_nowait(s) == TRUE

\* wait_for_completion that waits for an empty queue, not for join().
wait_for_completion_empty(s) == input_queue[s] = <<>>

\* QueueWorker.wait_for_completion returns: input_queue.join()
wait_for_completion(s) == unfinished[s] = 0

\* wait_for_completion then check_for_errors on stage s; a raise goes to the
\* except block of request_data.
wait_stage(s) ==
    /\ pc = WaitPc(s)
    /\ wait_for_completion(s)
    /\ pc' = IF check_for_errors(s) THEN "stop_http" ELSE AfterWait(s)
    /\ error' = IF check_for_errors(s) THEN "stage" ELSE error
    /\ reraised' = exception[s]
    /\ UNCHANGED <<otherVars, store, force_refresh, key_map, response, to_submit, fwj,
                   csv_buffer, input_queue, unfinished, running, exception, caught,
                   wpc, cur, put_calls, skip_seen, obsVars, client_running,
                   closed>>

StopPc(s) ==
    CASE s = HTTP -> "stop_http"
      [] s = PROC -> "stop_proc"
      [] OTHER -> "stop_writer"

JoinPc(s) ==
    CASE s = HTTP -> "join_http"
      [] s = PROC -> "join_proc"
      [] OTHER -> "join_writer"

AfterStop(s) ==
    CASE s = HTTP -> "stop_proc"
      [] s = PROC -> "stop_writer"
      [] OTHER -> "raised"

\* QueueWorker.stop, first half: the flag is cleared.  ThetaClient._stop
\* clears its own flag before it stops the first stage.
stop_signal(s) ==
    /\ pc = StopPc(s)
    /\ running' = [running EXCEPT ![s] = FALSE]
    /\ client_running' = FALSE
    /\ pc' = JoinPc(s)
    /\ UNCHANGED <<otherVars, store, force_refresh, key_map, response, to_submit, fwj,
                   csv_buffer, input_queue, unfinished, exception, caught, wpc, cur,
                   put_calls, skip_seen, obsVars, closed, error, reraised>>

\* QueueWorker.stop, second half: the joins are over (a thread still inside
\* its turn of the loop may have outlasted the 2 s timeout, a polling one has
\* not) and clear_queue empties the queue; get_nowait does no task_done.
\* HTTPWorker.stop then closes its httpx client.
stop_clear(s) ==
    /\ pc = JoinPc(s)
    /\ \A w \in Workers : w[1] = s => wpc[w] # "idle"
    /\ input_queue' = [input_queue EXCEPT ![s] = <<>>]
    /\ closed' = IF s = HTTP THEN TRUE ELSE closed
    /\ pc' = AfterStop(s)
    /\ UNCHANGED <<otherVars, store, force_refresh, key_map, response, to_submit, fwj,
                   csv_buffer, unfinished, running, exception, caught, wpc, cur,
                   put_calls, skip_seen, obsVars, client_running, error, reraised>>

Coordinator ==
    \/ request_data
    \/ request_data_raises
    \/ submit
    \/ \E s \in Stages : wait_stage(s)
    \/ \E s \in Stages : stop_signal(s)
    \/ \E s \in Stages : stop_clear(s)

----------------------------------------------------------------------------
\* QueueWorker._work, one thread w = <<stage, index>>

\* The except block that keeps the last exception.
latch_last(s, job) ==
    /\ exception' = [exception EXCEPT ![s] = job]
    /\ caught' = [caught EXCEPT ![s] = Append(@, job)]
    /\ running' = [running EXCEPT ![s] = FALSE]

\* The except block that clears the flag of every stage.
latch_all(s, job) ==
    /\ exception' = [exception EXCEPT ![s] = IF @ = NoJob THEN job ELSE @]
    /\ caught' = [caught EXCEPT ![s] = Append(@, job)]
    /\ running' = [t \in Stages |-> FALSE]

\* The except block of _work: the first exception is kept, the stage's flag
\* is cleared.
latch(s, job) ==
    /\ exception' = [exception EXCEPT ![s] = IF @ = NoJob THEN job ELSE @]
    /\ caught' = [caught EXCEPT ![s] = Append(@, job)]
    /\ running' = [running EXCEPT ![s] = FALSE]

\* A thread is "idle" from the loop condition to the return of
\* input_queue.get(timeout=0.1), Empty sending it round again.  It leaves the
\* loop when it reads the flag cleared.
work_exit(w) ==
    /\ wpc[w] = "idle"
    /\ ~running[w[1]]
    /\ wpc' = [wpc EXCEPT ![w] = "exit"]
    /\ UNCHANGED <<otherVars, clientVars, coordVars, fwj, csv_buffer, input_queue, unfinished,
                   running, exception, caught, cur, put_calls, skip_seen, obsVars>>

\* get followed at once by task_done.
work_get_done(w) ==
    /\ wpc[w] = "idle"
    /\ input_queue[w[1]] # <<>>
    /\ cur' = [cur EXCEPT ![w] = Head(input_queue[w[1]])]
    /\ input_queue' = [input_queue EXCEPT ![w[1]] = Tail(@)]
    /\ unfinished' = [unfinished EXCEPT ![w[1]] = @ - 1]
    /\ wpc' = [wpc EXCEPT ![w] = IF w[1] = HTTP /\ closed THEN "process_closed"
                                  ELSE "process"]
    /\ UNCHANGED <<otherVars, clientVars, coordVars, fwj, csv_buffer, running,
                   exception, caught, put_calls, skip_seen, obsVars>>

\* get that leaves the Job on the queue.
work_get_peek(w) ==
    /\ wpc[w] = "idle"
    /\ input_queue[w[1]] # <<>>
    /\ cur' = [cur EXCEPT ![w] = Head(input_queue[w[1]])]
    /\ wpc' = [wpc EXCEPT ![w] = IF w[1] = HTTP /\ closed THEN "process_closed"
                                  ELSE "process"]
    /\ UNCHANGED <<otherVars, clientVars, coordVars, fwj, csv_buffer, input_queue, unfinished, running,
                   exception, caught, put_calls, skip_seen, obsVars>>

\* input_queue.get(timeout=0.1) returns a Job; the flag was read before get.
\* A fetch thread that dequeues after the httpx client was closed calls get
\* on a closed client.
work_get(w) ==
    /\ wpc[w] = "idle"
    /\ input_queue[w[1]] # <<>>
    /\ cur' = [cur EXCEPT ![w] = Head(input_queue[w[1]])]
    /\ input_queue' = [input_queue EXCEPT ![w[1]] = Tail(@)]
    /\ wpc' = [wpc EXCEPT ![w] = IF w[1] = HTTP /\ closed THEN "process_closed"
                                  ELSE "process"]
    /\ UNCHANGED <<otherVars, clientVars, coordVars, fwj, csv_buffer, unfinished, running,
                   exception, caught, put_calls, skip_seen, obsVars>>

\* Where _work goes after process returned `result`.
AfterProcess(s, result) ==
    IF chained_worker(s) # None /\ result # NoJob THEN "forward" ELSE "done"

\* What the GET of a Job's URL can answer: the upstream answers a URL the
\* same way every time it is asked.
Upstream(job) ==
    IF response[job] = "pending" THEN Responses ELSE {response[job]}

\* self.process(job) of the fetch stage; on a closed client get raises
\* before any request is sent.
http_work(w) ==
    /\ w[1] = HTTP
    /\ wpc[w] \in {"process", "process_closed"}
    /\ \E answer \in Upstream(cur[w]) :
       LET job == cur[w]
           sent == wpc[w] = "process"
           r == IF sent THEN http_process(answer) ELSE "raise"
       IN  /\ processed' = [processed EXCEPT ![HTTP] = @ \cup {job}]
           /\ times' = [times EXCEPT ![HTTP][job] = @ + 1]
           /\ response' = IF sent THEN [response EXCEPT ![job] = answer]
                          ELSE response
           /\ IF r = "raise"
              THEN /\ latch(HTTP, job)
                   /\ wpc' = [wpc EXCEPT ![w] = "done_break"]
                   /\ UNCHANGED csv_buffer
              ELSE /\ csv_buffer' = [csv_buffer EXCEPT ![job] = r]
                   /\ wpc' = [wpc EXCEPT ![w] = AfterProcess(HTTP, job)]
                   /\ UNCHANGED <<running, exception, caught>>
    /\ UNCHANGED <<otherVars, clientVars, pc, store, force_refresh, key_map, to_submit, fwj,
                   input_queue, unfinished, cur, put_calls, skip_seen, added,
                   store_at_call>>

\* self.process(job) of the decode stage
decode_work(w) ==
    /\ w[1] = PROC
    /\ wpc[w] = "process"
    /\ LET job == cur[w]
           k == job[1]
           d == decode_process(csv_buffer[job])
       IN  /\ processed' = [processed EXCEPT ![PROC] = @ \cup {job}]
           /\ times' = [times EXCEPT ![PROC][job] = @ + 1]
           /\ IF d = "raise"
              THEN /\ latch(PROC, job)
                   /\ wpc' = [wpc EXCEPT ![w] = "done_break"]
                   /\ UNCHANGED fwj
              ELSE /\ fwj' = [fwj EXCEPT ![k] =
                                 IF d = "skip" THEN mark_item_skipped(@)
                                 ELSE add_table(@, job[2])]
                   /\ wpc' = [wpc EXCEPT ![w] = AfterProcess(PROC, job)]
                   /\ UNCHANGED <<running, exception, caught>>
    /\ UNCHANGED <<otherVars, clientVars, coordVars, csv_buffer, input_queue, unfinished, cur,
                   put_calls, skip_seen, added, store_at_call>>

\* self.process(job) of the finalize stage; put_object succeeds or raises.
writer_work(w) ==
    /\ w[1] = WRITER
    /\ wpc[w] = "process"
    /\ LET job == cur[w]
           k == job[1]
           d == writer_process(fwj[k])
       IN  /\ processed' = [processed EXCEPT ![WRITER] = @ \cup {job}]
           /\ times' = [times EXCEPT ![WRITER][job] = @ + 1]
           /\ skip_seen' = [skip_seen EXCEPT ![k] = IF d = "skipped" THEN @ + 1 ELSE @]
           /\ put_calls' = [put_calls EXCEPT ![k] = IF d = "put" THEN @ + 1 ELSE @]
           /\ \/ /\ store' = IF d = "put" THEN store \cup {k} ELSE store
                 /\ wpc' = [wpc EXCEPT ![w] = AfterProcess(WRITER, NoJob)]
                 /\ UNCHANGED <<running, exception, caught>>
              \/ /\ d = "put"
                 /\ latch(WRITER, job)
                 /\ wpc' = [wpc EXCEPT ![w] = "done_break"]
                 /\ UNCHANGED store
    /\ UNCHANGED <<otherVars, clientVars, pc, force_refresh, key_map, response, to_submit, fwj,
                   csv_buffer, input_queue, unfinished, cur, added,
                   store_at_call>>

\* self._chained_worker.add_job(processed_job)
work_forward(w) ==
    /\ wpc[w] = "forward"
    /\ LET next == chained_worker(w[1]) IN
       /\ input_queue' = [input_queue EXCEPT ![next] = add_job(@, cur[w])]
       /\ unfinished' = [unfinished EXCEPT ![next] = @ + 1]
       /\ added' = [added EXCEPT ![next] = @ \cup {cur[w]}]
    /\ wpc' = [wpc EXCEPT ![w] = "done"]
    /\ UNCHANGED <<otherVars, clientVars, coordVars, fwj, csv_buffer, running, exception, caught, cur,
                   put_calls, skip_seen, processed, times, store_at_call>>

\* finally: self.input_queue.task_done(); after an exception the loop breaks.
work_task_done(w) ==
    /\ wpc[w] \in {"done", "done_break"}
    /\ unfinished' = [unfinished EXCEPT ![w[1]] = @ - 1]
    /\ cur' = [cur EXCEPT ![w] = NoJob]
    /\ wpc' = [wpc EXCEPT ![w] = IF wpc[w] = "done" THEN "idle" ELSE "exit"]
    /\ UNCHANGED <<otherVars, clientVars, coordVars, fwj, csv_buffer, input_queue, running,
                   exception, caught, put_calls, skip_seen, obsVars>>

work(w) ==
    \/ work_exit(w)
    \/ work_get(w)
    \/ http_work(w)
    \/ decode_work(w)
    \/ writer_work(w)
    \/ work_forward(w)
    \/ work_task_done(w)

Next == Coordinator \/ \E w \in Workers : work(w)

----------------------------------------------------------------------------
\* ThetaClient(...): type.__call__ runs __new__ and then, the result being a
\* ThetaClient, __init__ on it.

requestVars == <<pc, store, force_refresh, key_map, response, to_submit, fwj,
                 csv_buffer, cur, put_calls, skip_seen, added, processed, times,
                 store_at_call, also_store, prior, closed, error, reraised>>

pipelineVars == <<requestVars, unitVars>>

\* A caller starts a construction.
construct(c) ==
    /\ ctor_pc[c] = "idle"
    /\ \E n \in ThreadArgs : ctor_arg' = [ctor_arg EXCEPT ![c] = n]
    /\ ctor_pc' = [ctor_pc EXCEPT ![c] = "new"]
    /\ UNCHANGED <<pipelineVars, lifeVars, cls_instance, cls_lock, ctor_ret, objects,
                   inits, self_num_threads, self_stages, client_running,
                   running, exception, caught, wpc, input_queue, unfinished>>

\* __new__: the first test of _instance, outside the lock.
new_check(c) ==
    /\ ctor_pc[c] = "new"
    /\ ctor_pc' = [ctor_pc EXCEPT ![c] = IF cls_instance = 0 THEN "lock"
                                         ELSE "return"]
    /\ UNCHANGED <<pipelineVars, lifeVars, cls_instance, cls_lock, ctor_arg, ctor_ret,
                   objects, inits, self_num_threads, self_stages,
                   client_running, running, exception, caught, wpc, input_queue,
                   unfinished>>

\* __new__: with cls._lock
new_lock(c) ==
    /\ ctor_pc[c] = "lock"
    /\ cls_lock = 0
    /\ cls_lock' = c
    /\ ctor_pc' = [ctor_pc EXCEPT ![c] = "locked"]
    /\ UNCHANGED <<pipelineVars, lifeVars, cls_instance, ctor_arg, ctor_ret, objects,
                   inits, self_num_threads, self_stages, client_running,
                   running, exception, caught, wpc, input_queue, unfinished>>

\* The second test without the test.
must_create_always(instance) == TRUE

\* __new__: the second test of _instance, under the lock.
must_create(instance) == instance = 0

\* __new__: under the lock, the second test and super().__new__; the lock is
\* released on leaving the with block.
new_create(c) ==
    /\ ctor_pc[c] = "locked"
    /\ IF must_create(cls_instance)
       THEN /\ objects' = objects + 1
            /\ cls_instance' = objects + 1
       ELSE UNCHANGED <<objects, cls_instance>>
    /\ cls_lock' = 0
    /\ ctor_pc' = [ctor_pc EXCEPT ![c] = "return"]
    /\ UNCHANGED <<pipelineVars, lifeVars, ctor_arg, ctor_ret, inits, self_num_threads,
                   self_stages, client_running, running, exception, caught, wpc,
                   input_queue, unfinished>>

\* __new__: return cls._instance
new_return(c) ==
    /\ ctor_pc[c] = "return"
    /\ ctor_ret' = [ctor_ret EXCEPT ![c] = cls_instance]
    /\ ctor_pc' = [ctor_pc EXCEPT ![c] = "init"]
    /\ UNCHANGED <<pipelineVars, lifeVars, cls_instance, cls_lock, ctor_arg, objects,
                   inits, self_num_threads, self_stages, client_running,
                   running, exception, caught, wpc, input_queue, unfinished>>

\* __init__ on the returned object: num_threads is assigned, the three stages
\* are constructed anew (empty queue, _running false, no thread, no
\* exception) and _running is cleared.  Threads of the stage objects held
\* before go on running; they belong to no stage of the instance any more.
init(c) ==
    /\ ctor_pc[c] = "init"
    /\ self_num_threads' = ctor_arg[c]
    /\ self_stages' = self_stages + 1
    /\ client_running' = FALSE
    /\ running' = [s \in Stages |-> FALSE]
    /\ exception' = [s \in Stages |-> NoJob]
    /\ caught' = [s \in Stages |-> <<>>]
    /\ wpc' = [w \in Workers |-> "unborn"]
    /\ input_queue' = [s \in Stages |-> <<>>]
    /\ unfinished' = [s \in Stages |-> 0]
    /\ inits' = inits + 1
    /\ ctor_pc' = [ctor_pc EXCEPT ![c] = "done"]
    /\ UNCHANGED <<pipelineVars, lifeVars, cls_instance, cls_lock, ctor_arg, ctor_ret,
                   objects>>

\* ThetaClient._start on the constructed instance (the first statement of
\* request_data).
_start ==
    /\ inits >= 1
    /\ ~client_running
    /\ client_running' = TRUE
    /\ start_all
    /\ UNCHANGED <<pipelineVars, lifeVars, classVars, input_queue, unfinished>>

NextConstruct ==
    \/ \E c \in Callers :
          \/ construct(c)
          \/ new_check(c)
          \/ new_lock(c)
          \/ new_create(c)
          \/ new_return(c)
          \/ init(c)
    \/ _start

InitConstruct ==
    /\ NewClient
    /\ NoInstance
    /\ NoThreads
    /\ NoUnit
    /\ store = {}
    /\ also_store = {}

\* Constructions of ThetaClient from several threads.
ConstructSpec == InitConstruct /\ [][NextConstruct]_vars

----------------------------------------------------------------------------
\* One QueueWorker driven by a controlling thread through start(), stop() and
\* add_job(), with every thread start() ever spawned for it.  A thread is at
\* "top" before the loop test, at "poll" inside get(timeout=0.1).

TheStage == HTTP

\* What these steps never write.
lifeFrame == <<pipelineVars, classVars, client_running, wpc, caught>>

\* QueueWorker.start
start ==
    /\ op = "ready"
    /\ ncalls < MaxCalls
    /\ running[TheStage] \/ spawned + num_threads(TheStage) <= NumThreads * MaxStarts
    /\ ncalls' = ncalls + 1
    /\ last_call' = "start"
    /\ IF running[TheStage]
       THEN UNCHANGED <<running, exception, tpc, tracked, spawned>>
       ELSE LET new == (spawned + 1)..(spawned + num_threads(TheStage)) IN
            /\ running' = [running EXCEPT ![TheStage] = TRUE]
            /\ exception' = [exception EXCEPT ![TheStage] = NoJob]
            /\ tpc' = [i \in Threads |-> IF i \in new THEN "top" ELSE tpc[i]]
            /\ tracked' = tracked \cup new
            /\ spawned' = spawned + num_threads(TheStage)
    /\ UNCHANGED <<lifeFrame, input_queue, unfinished, tjob, op>>

\* QueueWorker.stop, up to the joins.
stop_begin ==
    /\ op = "ready"
    /\ ncalls < MaxCalls
    /\ ncalls' = ncalls + 1
    /\ last_call' = "stop"
    /\ running' = [running EXCEPT ![TheStage] = FALSE]
    /\ op' = "joining"
    /\ UNCHANGED <<lifeFrame, exception, input_queue, unfinished, tpc, tjob,
                   tracked, spawned>>

\* QueueWorker.stop, from the end of the joins: a tracked thread has exited,
\* or is still inside process() and outlasted its join(timeout=2.0) (a
\* polling thread sees Empty within 0.1 s, reads the flag and exits).
stop_end ==
    /\ op = "joining"
    /\ \A i \in tracked : tpc[i] \in {"exit", "process"}
    /\ tracked' = {}
    /\ input_queue' = [input_queue EXCEPT ![TheStage] = <<>>]
    /\ op' = "ready"
    /\ UNCHANGED <<lifeFrame, running, exception, unfinished, tpc, tjob,
                   spawned, ncalls, last_call>>

\* QueueWorker.add_job from the controlling thread
add ==
    /\ op = "ready"
    /\ ncalls < MaxCalls
    /\ Len(input_queue[TheStage]) < MaxJobs
    /\ ncalls' = ncalls + 1
    /\ last_call' = "add_job"
    /\ \E job \in AllJobs :
          input_queue' = [input_queue EXCEPT ![TheStage] = add_job(@, job)]
    /\ unfinished' = [unfinished EXCEPT ![TheStage] = @ + 1]
    /\ UNCHANGED <<lifeFrame, running, exception, tpc, tjob, tracked, spawned,
                   op>>

\* while self._running
loop_test(i) ==
    /\ tpc[i] = "top"
    /\ tpc' = [tpc EXCEPT ![i] = IF running[TheStage] THEN "poll" ELSE "exit"]
    /\ UNCHANGED <<lifeFrame, running, exception, input_queue, unfinished,
                   tjob, tracked, spawned, op, ncalls, last_call>>

\* input_queue.get(timeout=0.1) returns a Job
loop_get(i) ==
    /\ tpc[i] = "poll"
    /\ input_queue[TheStage] # <<>>
    /\ tjob' = [tjob EXCEPT ![i] = Head(input_queue[TheStage])]
    /\ input_queue' = [input_queue EXCEPT ![TheStage] = Tail(@)]
    /\ tpc' = [tpc EXCEPT ![i] = "process"]
    /\ UNCHANGED <<lifeFrame, running, exception, unfinished, tracked,
                   spawned, op, ncalls, last_call>>

\* input_queue.get(timeout=0.1) raises Empty: continue
loop_empty(i) ==
    /\ tpc[i] = "poll"
    /\ input_queue[TheStage] = <<>>
    /\ tpc' = [tpc EXCEPT ![i] = "top"]
    /\ UNCHANGED <<lifeFrame, running, exception, input_queue, unfinished,
                   tjob, tracked, spawned, op, ncalls, last_call>>

\* self.process(job) returns, or raises into the except block.
loop_process(i) ==
    /\ tpc[i] = "process"
    /\ \/ /\ tpc' = [tpc EXCEPT ![i] = "done"]
          /\ UNCHANGED <<running, exception>>
       \/ /\ exception' = [exception EXCEPT ![TheStage] =
                               IF @ = NoJob THEN tjob[i] ELSE @]
          /\ running' = [running EXCEPT ![TheStage] = FALSE]
          /\ tpc' = [tpc EXCEPT ![i] = "done_break"]
    /\ UNCHANGED <<lifeFrame, input_queue, unfinished, tjob, tracked, spawned,
                   op, ncalls, last_call>>

\* finally: task_done(); after an exception the loop breaks.
loop_task_done(i) ==
    /\ tpc[i] \in {"done", "done_break"}
    /\ unfinished' = [unfinished EXCEPT ![TheStage] = @ - 1]
    /\ tjob' = [tjob EXCEPT ![i] = NoJob]
    /\ tpc' = [tpc EXCEPT ![i] = IF tpc[i] = "done" THEN "top" ELSE "exit"]
    /\ UNCHANGED <<lifeFrame, running, exception, input_queue, tracked,
                   spawned, op, ncalls, last_call>>

NextLife ==
    \/ start
    \/ stop_begin
    \/ stop_end
    \/ add
    \/ \E i \in Threads :
          \/ loop_test(i)
          \/ loop_get(i)
          \/ loop_empty(i)
          \/ loop_process(i)
          \/ loop_task_done(i)

InitLife ==
    /\ NewClient
    /\ Constructed
    /\ NoThreads
    /\ NoUnit
    /\ store = {}
    /\ also_store = {}

\* The life cycle of one stage.
LifeSpec == InitLife /\ [][NextLife]_vars

\* One turn of thread i in _work.
loop(i) ==
    \/ loop_test(i)
    \/ loop_get(i)
    \/ loop_empty(i)
    \/ loop_process(i)
    \/ loop_task_done(i)

\* The worker threads are scheduled fairly, every process() call ends, and
\* the joins of stop() end; the controlling thread calls what it likes.
FairLifeSpec ==
    /\ LifeSpec
    /\ WF_vars(stop_end)
    /\ \A i \in Threads : WF_vars(loop(i))

----------------------------------------------------------------------------
\* Nothing of the previous call is left: no thread, no queued Job.
Quiescent ==
    /\ \A w \in Workers : wpc[w] = "exit"
    /\ \A s \in Stages : input_queue[s] = <<>>

\* request_data called again with the same request, after the previous call
\* returned (the stages are still running and _start does nothing) or after
\* it raised and its threads are gone (_stop cleared ThetaClient._running and
\* _start starts the stages again).  The FileWriteJobs and Jobs are new
\* objects; unfinished_tasks is what the previous call left.
request_again ==
    /\ pc \in {"returned", "raised"}
    /\ prior.outcome = "none"
    /\ error # "planner"
    /\ ~client_running => Quiescent
    /\ prior' = [outcome |-> pc, put_calls |-> put_calls]
    /\ IF client_running THEN UNCHANGED <<running, exception, caught, wpc>> ELSE start_all
    /\ client_running' = TRUE
    /\ error' = None
    /\ reraised' = NoJob
    /\ LET jobs == JobsFrom(key_map, 1, force_refresh) IN
         /\ to_submit' = jobs
         /\ pc' = IF jobs = <<>> THEN "wait_http" ELSE "submit"
    /\ store_at_call' = store
    /\ fwj' = [k \in Keys |-> NoFwj]
    /\ csv_buffer' = [j \in AllJobs |-> None]
    /\ put_calls' = [k \in Keys |-> 0]
    /\ skip_seen' = [k \in Keys |-> 0]
    /\ added' = [s \in Stages |-> {}]
    /\ processed' = [s \in Stages |-> {}]
    /\ times' = [s \in Stages |-> [j \in AllJobs |-> 0]]
    /\ UNCHANGED <<store, force_refresh, key_map, response, input_queue,
                   unfinished, cur, also_store, closed, classVars, lifeVars,
                   unitVars>>

\* The second call raises before its try block as the first did: with the
\* calendar unchanged the planner fails again, and the store may still be
\* unreachable.
request_again_raises ==
    /\ pc = "raised"
    /\ prior.outcome = "none"
    /\ error \in {"planner", "exists"}
    /\ prior' = [outcome |-> pc, put_calls |-> put_calls]
    /\ UNCHANGED <<pc, store, force_refresh, key_map, response, to_submit,
                   fwj, csv_buffer, input_queue, unfinished, running,
                   exception, caught, wpc, cur, put_calls, skip_seen, added,
                   processed, times, store_at_call, also_store, clientVars,
                   classVars, lifeVars, unitVars>>

NextTwoCalls == Next \/ request_again \/ request_again_raises

Spec == Init /\ [][Next]_vars

\* Threads are scheduled fairly and every process() call returns.
FairSpec == Spec /\ WF_vars(Coordinator) /\ \A w \in Workers : WF_vars(work(w))

\* Two request_data calls with the same request on one client.
TwoCallSpec == Init /\ [][NextTwoCalls]_vars

\* Two calls, the threads scheduled fairly and every process() call returning;
\* whether the caller calls again is up to the caller.
FairTwoCallSpec ==
    /\ TwoCallSpec
    /\ WF_vars(Coordinator)
    /\ \A w \in Workers : WF_vars(work(w))

\* The pipeline against a server that has other buckets.
CheckBucketSpec == InitCheckBuckets /\ [][Next]_vars

----------------------------------------------------------------------------
\* Streaming: the chain ends in a DataFrameCollector, which takes the place
\* of the FileWriter (one thread, stage WRITER of the model), and the
\* coordinator is otherwise that of request_data.

\* DataFrameCollector.process: what it publishes on a Job of FileWriteJob f.
collector_process(f) ==
    CASE ~f.completed -> "nothing"
      [] f.skipped_items -> "none"
      [] f.tables # <<>> -> "df"
      [] OTHER -> "nothing"

\* self.process(job) of the collector; put on the caller's queue returns.
collector_work(w) ==
    /\ w[1] = WRITER
    /\ wpc[w] = "process"
    /\ LET job == cur[w]
           k == job[1]
           d == collector_process(fwj[k])
       IN  /\ processed' = [processed EXCEPT ![WRITER] = @ \cup {job}]
           /\ times' = [times EXCEPT ![WRITER][job] = @ + 1]
           /\ skip_seen' = [skip_seen EXCEPT ![k] = IF d = "none" THEN @ + 1 ELSE @]
           /\ result_queue' = IF d = "nothing" THEN result_queue
                              ELSE Append(result_queue, <<k, d>>)
           /\ wpc' = [wpc EXCEPT ![w] = AfterProcess(WRITER, NoJob)]
    /\ UNCHANGED <<also_store, prior, classVars, lifeVars, fetchVars, planVars,
                   clientVars, coordVars, fwj, csv_buffer, input_queue,
                   unfinished, cur, added, store_at_call, put_calls, running,
                   exception, caught>>

stream_work(w) ==
    \/ work_exit(w)
    \/ work_get(w)
    \/ http_work(w)
    \/ decode_work(w)
    \/ collector_work(w)
    \/ work_forward(w)
    \/ work_task_done(w)

NextStream == Coordinator \/ \E w \in Workers : stream_work(w)

\* A streaming run reads from the upstream only; the bucket holds nothing.
InitStream ==
    /\ NewClient
    /\ Constructed
    /\ NoThreads
    /\ NoUnit
    /\ store = {}
    /\ also_store = {}

\* One streaming run.
StreamSpec == InitStream /\ [][NextStream]_vars

----------------------------------------------------------------------------
\* HTTPWorker.process on one Job, whose csv_buffer request_data set to None,
\* followed statement by statement.

\* What one process() call leaves alone.
clientFrame == <<requestVars, classVars, lifeVars, client_running, running,
                 exception, caught, wpc, input_queue, unfinished, streamVars>>

\* sub in text
Contains(text, sub) ==
    \E i \in 0..(Len(text) - Len(sub)) : SubSeq(text, i + 1, i + Len(sub)) = sub

\* httpx.Response.is_success
is_success(status_code) == status_code \in 200..299

\* The test that takes every 472 for the sentinel.
no_data_any472(r) == r.status_code = 472

\* The two nested tests of process (http_worker.py:51-55).
no_data(r) == r.status_code = 472 /\ Contains(r.text, NoDataText)

\* response = self.httpx_client.get(job.url)
process_get ==
    /\ process_pc = "idle"
    /\ \E r \in HttpResponses : http_response' = r
    /\ process_pc' = "test_472"
    /\ UNCHANGED <<clientFrame, planVars, job_csv_buffer>>

\* The sentinel: job.csv_buffer = None; return job
process_no_data ==
    /\ process_pc = "test_472"
    /\ no_data(http_response)
    /\ job_csv_buffer' = None
    /\ process_pc' = "returned"
    /\ UNCHANGED <<clientFrame, planVars, http_response>>

\* response.raise_for_status()
process_raise_for_status ==
    /\ process_pc = "test_472"
    /\ ~no_data(http_response)
    /\ process_pc' = IF is_success(http_response.status_code) THEN "assign"
                     ELSE "raised"
    /\ UNCHANGED <<clientFrame, planVars, http_response, job_csv_buffer>>

\* job.csv_buffer = BytesIO(response.content); return job
process_assign ==
    /\ process_pc = "assign"
    /\ job_csv_buffer' = http_response.text
    /\ process_pc' = "returned"
    /\ UNCHANGED <<clientFrame, planVars, http_response>>

NextFetch ==
    \/ process_get
    \/ process_no_data
    \/ process_raise_for_status
    \/ process_assign

InitFetch ==
    /\ NewClient
    /\ Constructed
    /\ NoThreads
    /\ NoUnit
    /\ store = {}
    /\ also_store = {}

\* One process() call of the fetch stage on every response.
FetchSpec == InitFetch /\ [][NextFetch]_vars

----------------------------------------------------------------------------
\* The request planner (requests.py).  An object key is the sequence of the
\* pieces its f-string joins with "/", a URL its base and the name=value
\* pairs urlencode joins with "&".  A dict is the sequence of its items in
\* insertion order.

\* The base class's _validate_params, which passes.
validate_none(cls, endpoint) == FALSE

\* _validate_params of the two request classes: TRUE when it raises.
_validate_params(cls, endpoint) ==
    IF cls = "StockRequest"
    THEN endpoint \notin {EOD, QUOTE}
    ELSE endpoint \notin {EOD, QUOTE, TRADE, TRADE_QUOTE, GREEKS_EOD,
                          GREEKS_FIRST_ORDER}

\* The fields StockRequest.__init__ or OptionRequest.__init__ assigns.
Request(cls, symbol, start_date, end_date, endpoint, interval, force, gran) ==
    LET asset == IF cls = "StockRequest" THEN STOCK ELSE OPTION IN
    [cls |-> cls,
     minio_folder |-> "thetadata/" \o asset \o "/" \o HISTORY,
     symbol |-> symbol, start_date |-> start_date, end_date |-> end_date,
     asset_class |-> asset, data_type |-> HISTORY, endpoint |-> endpoint,
     interval |-> interval, force_refresh |-> force,
     file_granularity |-> gran]

Symbols == {"AAPL"}

\* StockRequest(...) or OptionRequest(...): the fields are assigned, then
\* _validate_params runs.
new_request ==
    /\ plan_pc = "new"
    /\ \E cls \in {"StockRequest", "OptionRequest"}, symbol \in Symbols,
          endpoint \in Endpoint, interval \in Interval, force \in BOOLEAN,
          granularity \in FileGranularity, a \in Days, b \in Days :
          /\ a <= b
          /\ request' = Request(cls, symbol, a, b, endpoint, interval, force,
                                granularity)
          /\ plan_pc' = IF _validate_params(cls, endpoint) THEN "invalid"
                        ELSE "constructed"
    /\ UNCHANGED <<clientFrame, fetchVars, calendar, calendar_gets,
                   final_dates, outcome>>

\* urllib.parse.quote on a name or value: of the characters that occur,
\* only "*" is not always safe.
quote(s, safe) == IF s = "*" /\ "*" \notin safe THEN "%2A" ELSE s

\* urlencode's default quote_via, which keeps nothing.
quote_plus(s) == quote(s, {})

\* quote_keep_star of _create_urls_per_day
quote_keep_star(s) == quote(s, {"*"})

\* urlencode(params, quote_via=quote_keep_star), before the join
urlencode(params) ==
    [i \in DOMAIN params |->
        <<quote_keep_star(params[i][1]), quote_keep_star(params[i][2])>>]

\* d[k] = v on a dict
DictSet(d, k, v) ==
    IF \E i \in DOMAIN d : d[i][1] = k
    THEN [i \in DOMAIN d |-> IF d[i][1] = k THEN <<k, v>> ELSE d[i]]
    ELSE Append(d, <<k, v>>)

\* d | e on dicts
RECURSIVE Merge(_, _)
Merge(d, e) ==
    IF e = <<>> THEN d
    ELSE Merge(DictSet(d, Head(e)[1], Head(e)[2]), Tail(e))

\* The test that knows the EOD price endpoint only.
non_eod_price_only(r) == r.endpoint # EOD

\* The test of lines 118 and 128.
non_eod(r) == r.endpoint # EOD /\ r.endpoint # GREEKS_EOD

_build_base_url(r) ==
    THETA_BASE_URL \o "/" \o r.asset_class \o "/" \o r.data_type \o "/"
        \o r.endpoint

\* base_params of _create_urls_per_day
base_params(r) ==
    <<<<"symbol", r.symbol>>>>
    \o (IF non_eod(r) THEN <<<<"interval", r.interval.value>>>> ELSE <<>>)
    \o (IF r.asset_class = OPTION
        THEN <<<<"expiration", "*">>, <<"strike", "*">>>> ELSE <<>>)

\* params of one day, base_params with the day's items merged in after it
day_params(r, d) ==
    Merge(base_params(r),
          IF non_eod(r) THEN <<<<"date", Ymd(d)>>>>
          ELSE <<<<"start_date", Ymd(d)>>, <<"end_date", Ymd(d)>>>>)

_create_urls_per_day(r, days) ==
    [i \in DOMAIN days |->
        [base |-> _build_base_url(r), query |-> urlencode(day_params(r, days[i]))]]

\* _generate_date_range, as the set get_key_map makes of it
_generate_date_range(r) == {n \in Days : r.start_date <= n /\ n <= r.end_date}

\* _get_valid_dates that keeps Saturdays and Sundays.
_get_valid_dates_all(rows) == rows

\* _get_valid_dates on the calendar's rows, as the set get_key_map makes of it
_get_valid_dates(rows) == {n \in rows : weekday(n) < 5}

\* The orders in which a set can be iterated.
Orders(S) ==
    {o \in [1..Cardinality(S) -> S] : \A i, j \in DOMAIN o : o[i] = o[j] => i = j}

\* yearmo_dict[yearmo_key].append(date) on the defaultdict
RECURSIVE map_dates(_, _)
map_dates(dates, yearmo_dict) ==
    IF dates = <<>> THEN yearmo_dict
    ELSE LET date == Head(dates)
             yearmo_key == <<AllDays[date].year, AllDays[date].month>>
             had == {i \in DOMAIN yearmo_dict : yearmo_dict[i][1] = yearmo_key}
             so_far == IF had = {} THEN <<>>
                       ELSE yearmo_dict[CHOOSE i \in had : TRUE][2]
         IN  map_dates(Tail(dates),
                       DictSet(yearmo_dict, yearmo_key, Append(so_far, date)))

_map_dates_to_yearmo(dates) == map_dates(dates, <<>>)

\* An Enum member in an f-string: str() of it, "Interval.M15".
format_enum(member) == "Interval." \o member.name

\* int_str of get_key_map, as the f-string of base_key renders it
int_str(r) ==
    IF r.endpoint \in {EOD, GREEKS_EOD} THEN "1d" ELSE format_enum(r.interval)

base_key(r) ==
    <<r.minio_folder, r.endpoint, r.file_granularity, int_str(r), r.symbol>>

\* get_key_map from final_dates on (lines 195-210): the key map, or that
\* d[1] or d[2] raised IndexError.
get_key_map(r, dates) ==
    LET day_map == _map_dates_to_yearmo(dates) IN
    IF r.file_granularity = MONTHLY
    THEN [raised |-> FALSE,
          key_map |-> [i \in DOMAIN day_map |->
              LET k == day_map[i][1]
                  v == day_map[i][2]
              IN  <<base_key(r) \o <<k[1], k[2], "data.parquet">>,
                    _create_urls_per_day(r, v)>>]]
    ELSE IF \E i \in DOMAIN day_map : Len(day_map[i][2]) < 3
    THEN [raised |-> TRUE, key_map |-> <<>>]
    ELSE [raised |-> FALSE,
          key_map |-> [i \in DOMAIN day_map |->
              LET d == day_map[i][2]
              IN  <<base_key(r) \o <<Ymd(d[1]), Ymd(d[2]), Ymd(d[3]),
                                     "data.parquet">>,
                    _create_urls_per_day(r, d)>>]]

\* request.get_key_map(): the calendar endpoint answers with some rows, the
\* intersection is listed in the order its set iterates.
call_get_key_map ==
    /\ plan_pc = "constructed"
    /\ \E rows \in SUBSET Days :
         \E o \in Orders(_get_valid_dates(rows) \cap _generate_date_range(request)) :
            /\ calendar' = rows
            /\ final_dates' = o
            /\ outcome' = get_key_map(request, o)
            /\ plan_pc' = IF get_key_map(request, o).raised THEN "raised"
                          ELSE "done"
    /\ calendar_gets' = calendar_gets + 1
    /\ UNCHANGED <<clientFrame, fetchVars, request>>

NextPlan == new_request \/ call_get_key_map

InitPlan ==
    /\ NewClient
    /\ Constructed
    /\ NoThreads
    /\ NoUnit
    /\ store = {}
    /\ also_store = {}

\* A request constructed and its key map asked for.
PlanSpec == InitPlan /\ [][NextPlan]_vars

----------------------------------------------------------------------------
\* request_data on a constructed request, the planner's key map being the one
\* the pipeline then works on.

\* The requests of these runs: stock EOD requests over every range of days.
Queries ==
    {Request("StockRequest", "AAPL", a, b, EOD, M15, force, granularity) :
        a \in Days, b \in Days, force \in BOOLEAN,
        granularity \in FileGranularity}

\* What the calendar endpoint lists in these runs: every day, or no day.
Calendars == {Days, {}}

\* len(url_list) of every key of a key map, in the order of its items.
UrlListLengths(km) == [i \in DOMAIN km |-> Len(km[i][2])]

\* request_data up to its try block (client.py:153-172): _start(), then
\* request.get_key_map() on what the calendar endpoint answers, then the
\* existence filter.  The planner raises when the endpoint is unreachable and
\* when get_key_map raises; stat_object can raise something that is no
\* S3Error when a key is looked up.
request_planned ==
    /\ pc = "call"
    /\ plan_pc = "constructed"
    /\ start_all
    /\ client_running' = TRUE
    /\ store_at_call' = store
    /\ calendar_gets' = calendar_gets + 1
    /\ \/ /\ error' = "planner"
          /\ pc' = "raised"
          /\ plan_pc' = "raised"
          /\ UNCHANGED <<calendar, final_dates, outcome, key_map,
                         force_refresh, to_submit>>
       \/ \E rows \in Calendars :
          \E o \in Orders(_get_valid_dates(rows) \cap _generate_date_range(request)) :
            LET res == get_key_map(request, o)
                km == UrlListLengths(res.key_map)
                jobs == JobsFrom(km, 1, request.force_refresh)
            IN  /\ Len(o) <= MaxJobs
                /\ calendar' = rows
                /\ final_dates' = o
                /\ outcome' = res
                /\ force_refresh' = request.force_refresh
                /\ IF res.raised
                   THEN /\ error' = "planner"
                        /\ pc' = "raised"
                        /\ plan_pc' = "raised"
                        /\ UNCHANGED <<key_map, to_submit>>
                   ELSE /\ plan_pc' = "done"
                        /\ key_map' = km
                        /\ \/ /\ to_submit' = jobs
                              /\ pc' = IF jobs = <<>> THEN "wait_http"
                                       ELSE "submit"
                              /\ UNCHANGED error
                           \/ /\ km # <<>>
                              /\ ~request.force_refresh
                              /\ error' = "exists"
                              /\ pc' = "raised"
                              /\ UNCHANGED to_submit
    /\ UNCHANGED <<request, also_store, prior, classVars, lifeVars, fetchVars,
                   streamVars, store, response, fwj, csv_buffer, input_queue,
                   unfinished, cur, put_calls, skip_seen, added, processed,
                   times, closed, reraised>>

\* The coordinator after the planner, and the worker threads.
Pipeline ==
    \/ submit
    \/ \E s \in Stages : wait_stage(s)
    \/ \E s \in Stages : stop_signal(s)
    \/ \E s \in Stages : stop_clear(s)
    \/ \E w \in Workers : work(w)

NextQuery == request_planned \/ Pipeline

\* The client constructed and a request constructed, nothing asked yet.
InitQuery ==
    /\ NewClient
    /\ Constructed
    /\ NoThreads
    /\ NoFetch
    /\ NoStream
    /\ plan_pc = "constructed"
    /\ request \in Queries
    /\ calendar = {}
    /\ calendar_gets = 0
    /\ final_dates = <<>>
    /\ outcome = NoResult
    /\ store \in SUBSET Keys
    /\ also_store = {}

\* One request_data call on a request whose key map the planner computes.
QuerySpec == InitQuery /\ [][NextQuery]_vars

\* Threads are scheduled fairly and every process() call returns.
FairQuerySpec ==
    /\ QuerySpec
    /\ WF_vars(request_planned \/ submit)
    /\ WF_vars(\E s \in Stages : wait_stage(s) \/ stop_signal(s) \/ stop_clear(s))
    /\ \A w \in Workers : WF_vars(work(w))

----------------------------------------------------------------------------
\* Vocabulary of the properties

PlannedKeys == DOMAIN key_map

JobsOf(k) == {<<k, i>> : i \in 1..fwj[k].total_items}

Created == {k \in Keys : fwj[k].created}

Returned == pc = "returned"

Raised == pc = "raised"

\* Some item of key k was answered by the 472 sentinel.
HasNoData(k) == \E j \in JobsOf(k) : response[j] = "nodata"

\* Job j was through decode without raising.
Decoded(j) == j \in processed[PROC] /\ exception[PROC] # j

----------------------------------------------------------------------------
\* request_data is in its except block or has raised.
Stopping == pc \in {"stop_http", "join_http", "stop_proc", "join_proc",
                    "stop_writer", "join_writer", "raised"}

\* Job j failed at fetch, or its decode raised.
Failed(j) == response[j] = "http_error" \/ exception[PROC] = j

\* get_key_map returned and every file_exists call returned.
Planned == error \notin {"planner", "exists"}

\* The query was planned and no upstream answer so far was anything but the
\* 472 sentinel.
AllNoData == Planned /\ \A j \in AllJobs : response[j] \in {"pending", "nodata"}

\* Key k was planned and found in the bucket by a call without force_refresh.
Existing(k) ==
    Planned /\ k \in PlannedKeys /\ ~force_refresh /\ k \in store_at_call

AllExisting ==
    pc # "call" /\ Planned /\ ~force_refresh /\ PlannedKeys \subseteq store_at_call

\* The keys put by the current call.
Uploaded == {k \in Keys : put_calls[k] >= 1}

\* The planned keys none of whose URLs was answered by the 472 sentinel.
NonSkipped == {k \in PlannedKeys : ~HasNoData(k)}

----------------------------------------------------------------------------
\* C1: FileWriter.process performs at most one put_object per FileWriteJob,
\* whatever the interleaving of the decode and the finalize worker.
C1_AtMostOneUpload == \A k \in Keys : put_calls[k] <= 1

\* C2: under fair scheduling every call of request_data eventually returns
\* or raises.
C2_CallEnds == <>(Returned \/ Raised)

\* C3: request_data never returns normally while some stage holds a captured
\* exception.
C3_NoReturnWithException == Returned => \A s \in Stages : exception[s] = NoJob

C3_Witness == Raised /\ exception[WRITER] # NoJob

\* C4: when request_data returns normally every key to process has its
\* FileWriteJob, every FileWriteJob is completed and was handled by finalize
\* (put if it has no skipped item, observed as skipped if it has one), and no
\* Job is queued, unfinished or held by a worker.
C4_ReturnMeansAllHandled ==
    Returned =>
        /\ \A k \in PlannedKeys :
              (force_refresh \/ k \notin store_at_call) => fwj[k].created
        /\ \A k \in Created :
              /\ fwj[k].completed
              /\ IF fwj[k].skipped_items
                 THEN skip_seen[k] >= 1 /\ put_calls[k] = 0
                 ELSE put_calls[k] >= 1 /\ k \in store
        /\ \A s \in Stages : input_queue[s] = <<>> /\ unfinished[s] = 0
        /\ \A w \in Workers : cur[w] = NoJob

C4_Witness ==
    /\ Returned
    /\ \E k1, k2 \in Created :
          /\ fwj[k1].skipped_items /\ skip_seen[k1] >= 1
          /\ ~fwj[k2].skipped_items /\ put_calls[k2] >= 1

\* C5: every FileWriteJob has 0 <= completed_items <= total_items, and
\* completed exactly when completed_items = total_items.
C5_CounterInvariant ==
    \A k \in Created :
        /\ 0 <= fwj[k].completed_items
        /\ fwj[k].completed_items <= fwj[k].total_items
        /\ fwj[k].completed <=> (fwj[k].completed_items = fwj[k].total_items)

C5_Witness ==
    \E k \in Created :
        fwj[k].completed /\ fwj[k].total_items = 2 /\ fwj[k].completed_items = 2

C7_SkippedFileNeverUploaded ==
    \A k \in Created :
        HasNoData(k) =>
            /\ put_calls[k] = 0
            /\ \A s \in Stages, j \in JobsOf(k) :
                  response[j] = "nodata" => exception[s] # j
            /\ (\A j \in JobsOf(k) : Decoded(j)) =>
                  fwj[k].completed /\ fwj[k].skipped_items

C7_Witness ==
    /\ Returned
    /\ \E k \in Created :
          /\ fwj[k].total_items = 2
          /\ response[<<k, 1>>] = "ok" /\ response[<<k, 2>>] = "nodata"
          /\ fwj[k].completed /\ skip_seen[k] >= 1 /\ put_calls[k] = 0

\* C8: while every upstream answer is the 472 sentinel there is no put, no
\* latched exception and no raise, and such a call returns normally.
C8_AllSentinelReturns ==
    /\ [](AllNoData =>
            /\ \A k \in Keys : put_calls[k] = 0
            /\ \A s \in Stages : exception[s] = NoJob
            /\ ~Stopping)
    /\ <>(Returned \/ ~AllNoData)

C8_Witness ==
    /\ Returned
    /\ AllNoData
    /\ Cardinality(processed[WRITER]) >= 2

\* C9: a key one of whose URLs failed at fetch, or whose decode raised, is
\* never put.
C9_FailedKeyNotEmitted ==
    \A k \in Created : (\E j \in JobsOf(k) : Failed(j)) => put_calls[k] = 0

C9_Witness ==
    \E k \in Created : \E j, sibling \in JobsOf(k) :
        /\ j # sibling
        /\ response[j] = "http_error"
        /\ sibling \in processed[WRITER]
        /\ put_calls[k] = 0

\* C10: a planned key that exists in the bucket gets, without force_refresh,
\* no FileWriteJob and no Job in any stage; when all planned keys exist no
\* Job reaches the fetch stage and the call returns normally.
C10_ExistingKeySkipped ==
    /\ [](/\ \A k \in PlannedKeys :
                Existing(k) =>
                    /\ ~fwj[k].created
                    /\ \A s \in Stages : \A j \in added[s] : j[1] # k
          /\ AllExisting => added[HTTP] = {} /\ ~Stopping)
    /\ (AllExisting ~> Returned)

C10_Witness ==
    /\ Returned
    /\ \E k1, k2 \in PlannedKeys :
          /\ Existing(k1) /\ ~fwj[k1].created
          /\ ~Existing(k2) /\ put_calls[k2] >= 1

\* C11: without force_refresh a planned key found in another bucket of the
\* server, though not in raw_bucket, counts as existing: it gets no
\* FileWriteJob and no Job in any stage.
C11_AlsoCheckSuppresses ==
    \A k \in PlannedKeys :
        (pc # "call" /\ ~force_refresh /\ k \in also_store /\ k \notin store_at_call) =>
            /\ ~fwj[k].created
            /\ \A s \in Stages : \A j \in added[s] : j[1] # k

C14_SecondConstructionChangesNothing ==
    [][(inits >= 1 /\ inits' > inits) =>
          /\ self_num_threads' = self_num_threads
          /\ self_stages' = self_stages
          /\ client_running' = client_running
          /\ running' = running /\ wpc' = wpc]_vars

\* C15: whatever the interleaving of the constructor calls, one object at
\* most is created and every call that left __new__ holds that object.
C15_OneInstance ==
    /\ objects <= 1
    /\ \A c \in Callers :
          ctor_pc[c] \in {"init", "done"} => objects = 1 /\ ctor_ret[c] = 1

\* Two callers passed the first test while _instance was None; one has
\* created the object and returned, the other holds the lock.
C15_Witness ==
    \E c1, c2 \in Callers :
        /\ c1 # c2
        /\ ctor_pc[c1] = "done" /\ ctor_ret[c1] = 1
        /\ ctor_pc[c2] = "locked"
        /\ objects = 1

\* C16: within one run of a stage the stored exception is the first one its
\* workers captured, whatever was captured later, and the exception
\* check_for_errors raises is that first one.
C16_FirstExceptionKept ==
    /\ \A s \in Stages :
          exception[s] = IF caught[s] = <<>> THEN NoJob ELSE Head(caught[s])
    /\ reraised # NoJob =>
          \E s \in Stages : caught[s] # <<>> /\ reraised = Head(caught[s])
    /\ error = "stage" => reraised # NoJob

C16_Witness ==
    /\ Raised
    /\ Len(caught[HTTP]) = 2
    /\ exception[HTTP] = caught[HTTP][1]
    /\ reraised = caught[HTTP][1]
    /\ reraised # caught[HTTP][2]

\* C17: when request_data has raised, for whatever reason, every stage has
\* its _running flag false and its input queue empty.
C17_RaiseMeansStopped ==
    Raised => \A s \in Stages : ~running[s] /\ input_queue[s] = <<>>

\* Job j raised in stage s.
RaisedIn(s, j) == \E i \in DOMAIN caught[s] : caught[s][i] = j

\* Stage s is through with Job j: process() was called on it and, unless it
\* raised or s is the last stage, the Job was put on the successor's queue.
ThroughStage(s, j) ==
    /\ j \in processed[s]
    /\ (chained_worker(s) # None /\ ~RaisedIn(s, j)) =>
          j \in added[chained_worker(s)]

\* C18: wait_for_completion on a stage returns only when every Job submitted
\* to the stage is through process() and, where process returned it and a
\* successor is chained, on the successor's queue.
C18_DrainWaitsForJobs ==
    [][\A s \in Stages :
          (pc = WaitPc(s) /\ pc' # pc) => \A j \in added[s] : ThroughStage(s, j)]_vars

C18_Witness ==
    /\ pc = "wait_writer"
    /\ Cardinality(added[PROC]) = 2
    /\ added[WRITER] = added[PROC]
    /\ \E w \in Workers : w[1] = WRITER /\ wpc[w] = "process"

\* C20: no Job is processed twice by a stage, and when request_data returns
\* normally every Job submitted to fetch was processed exactly once by
\* fetch, by decode and by finalize.
C20_ExactlyOnce ==
    /\ \A s \in Stages, j \in AllJobs : times[s][j] <= 1
    /\ Returned =>
          /\ added[HTTP] = UNION {JobsOf(k) : k \in Created}
          /\ \A s \in Stages, j \in added[HTTP] : times[s][j] = 1

C20_Witness ==
    /\ Returned
    /\ Cardinality(added[HTTP]) = 2
    /\ \A s \in Stages, j \in added[HTTP] : times[s][j] = 1

\* The threads of the stage that are in the loop of _work.
LiveThreads == {i \in Threads : tpc[i] \in {"top", "poll", "process", "done"}}

\* C19: start() on a running stage spawns no thread and changes no state, a
\* started stage has exactly num_threads workers, and a stop() that has
\* returned leaves the stage stopped, its queue empty and no thread tracked.
C19_StartStopIdempotent ==
    /\ [](running[TheStage] =>
             /\ Cardinality(LiveThreads) = num_threads(TheStage)
             /\ Cardinality(tracked) = num_threads(TheStage))
    /\ []((last_call = "stop" /\ op = "ready") =>
             /\ ~running[TheStage]
             /\ input_queue[TheStage] = <<>>
             /\ tracked = {})
    /\ [][(last_call' = "start" /\ ncalls' # ncalls /\ running[TheStage]) =>
             /\ UNCHANGED <<running, exception, input_queue, unfinished>>
             /\ UNCHANGED <<tpc, tjob, tracked, spawned>>]_vars

----------------------------------------------------------------------------
\* C21: the fetch stage returns the Job with no body, raising nothing, on a
\* 472 whose body contains the no-data text; it raises on every other status
\* outside 2xx, a 472 without that text included; on a 2xx it returns the
\* Job with the response's bytes as its body.
C21_Classification ==
    process_pc \in {"returned", "raised"} =>
        LET code == http_response.status_code
            sentinel == code = 472 /\ Contains(http_response.text, NoDataText)
        IN  /\ sentinel => process_pc = "returned" /\ job_csv_buffer = None
            /\ ~sentinel /\ code \notin 200..299 => process_pc = "raised"
            /\ code \in 200..299 =>
                  process_pc = "returned" /\ job_csv_buffer = http_response.text

\* A 472 whose body lacks the text has raised.
C21_Witness ==
    /\ process_pc = "raised"
    /\ http_response.status_code = 472
    /\ http_response.text = <<"N", "x", "d">>

----------------------------------------------------------------------------
\* The results published for key k so far.
ResultsOf(k) == {i \in DOMAIN result_queue : result_queue[i][1] = k}

\* C22: in streaming mode the terminal stage publishes exactly one result
\* per FileWriteJob, (key, table) for a file without skipped item and
\* (key, none) for one with, so that the results of a run that returned are
\* as many as the planned keys, whatever the interleaving.
C22_OneResultPerFile ==
    /\ \A k \in Keys : Cardinality(ResultsOf(k)) <= 1
    /\ \A i \in DOMAIN result_queue :
          result_queue[i][2] =
              IF fwj[result_queue[i][1]].skipped_items THEN "none" ELSE "df"
    /\ Returned => Len(result_queue) = Cardinality(PlannedKeys)

----------------------------------------------------------------------------
\* get_key_map was called and has returned or raised.
PlanEnded == plan_pc \in {"done", "raised"}

\* The trading days of the requested range: the calendar's dates that are
\* weekdays and lie between start_date and end_date.
Surviving ==
    {n \in calendar : n % 7 < 5 /\ request.start_date <= n /\ n <= request.end_date}

\* The URLs of a key map, all keys together.
RECURSIVE UrlCount(_)
UrlCount(km) == IF km = <<>> THEN 0 ELSE Len(Head(km)[2]) + UrlCount(Tail(km))

\* C23: for every query, of either granularity, get_key_map returns a key
\* map whose URL lists together hold as many URLs as there are trading days
\* in the requested range.
C23_UrlCountMatches ==
    PlanEnded => ~outcome.raised /\ UrlCount(outcome.key_map) = Cardinality(Surviving)

\* The dates of S in ascending order.
Ascending(S) == CHOOSE o \in Orders(S) : \A i, j \in DOMAIN o : i < j => o[i] < o[j]

\* C24: in the key map get_key_map returns, the URL list of every key is in
\* ascending date order: it is the URL list of some set of dates listed in
\* ascending order, whatever order the intersection was iterated in.
C24_UrlsAscending ==
    plan_pc = "done" =>
        \A i \in DOMAIN outcome.key_map :
            \E S \in SUBSET Days :
                outcome.key_map[i][2] = _create_urls_per_day(request, Ascending(S))

\* The key of day n as daily granularity is to name it.
DailyKey(n) ==
    base_key(request) \o <<AllDays[n].year, AllDays[n].month, AllDays[n].day,
                            "data.parquet">>

\* C25: with daily granularity get_key_map yields one key per surviving
\* trading day, <base>/<YYYY>/<MM>/<DD>/data.parquet of that day, mapped to
\* the one URL of that day, however many days of a month survive.
C25_DailyKeyPerDay ==
    PlanEnded /\ request.file_granularity = DAILY =>
        /\ ~outcome.raised
        /\ Len(outcome.key_map) = Cardinality(Surviving)
        /\ \A n \in Surviving :
              \E i \in DOMAIN outcome.key_map :
                  /\ outcome.key_map[i][1] = DailyKey(n)
                  /\ outcome.key_map[i][2] = _create_urls_per_day(request, <<n>>)

\* The piece of an object key that follows the granularity.
IntervalSegment(key) == key[4]

\* C26: the interval segment of every object key is "1d" for the two EOD
\* endpoints and the interval's string value otherwise, "15m" for the
\* 15-minute interval.
C26_IntervalSegment ==
    plan_pc = "done" =>
        \A i \in DOMAIN outcome.key_map :
            IntervalSegment(outcome.key_map[i][1]) =
                IF request.endpoint \in {"eod", "greeks/eod"} THEN "1d"
                ELSE request.interval.value

\* The object keys of a key map.
KeySet(km) == {km[i][1] : i \in DOMAIN km}

\* C27: the set of object keys is a function of the query's fields other
\* than force_refresh and of the calendar: evaluated on an equal query, of
\* either force_refresh, with the date set iterated in any other order,
\* get_key_map returns the same key set.
C27_KeySetDeterministic ==
    PlanEnded =>
        \A o \in Orders(Range(final_dates)), force \in BOOLEAN :
            LET again == get_key_map([request EXCEPT !.force_refresh = force], o)
            IN  /\ again.raised = outcome.raised
                /\ KeySet(again.key_map) = KeySet(outcome.key_map)

\* The URLs of the key map that was returned.
PlannedUrls == UNION {Range(outcome.key_map[i][2]) : i \in DOMAIN outcome.key_map}

\* The parameter names of a URL, in the order of its query string.
Names(u) == [i \in DOMAIN u.query |-> u.query[i][1]]

\* The values a URL's query string gives to a name.
Values(u, name) == {u.query[i][2] : i \in {j \in DOMAIN u.query : u.query[j][1] = name}}

SurvivingYmd == {Ymd(n) : n \in Surviving}

\* What the claim says of every endpoint: interval and date without
\* start_date and end_date for a non-EOD endpoint, start_date and end_date of
\* one day without interval for an EOD endpoint.
PerDayParams(u) ==
    IF request.endpoint \in {"eod", "greeks/eod"}
    THEN /\ Values(u, "interval") = {} /\ Values(u, "date") = {}
         /\ \E d \in SurvivingYmd :
               Values(u, "start_date") = {d} /\ Values(u, "end_date") = {d}
    ELSE /\ Values(u, "interval") = {request.interval.value}
         /\ \E d \in SurvivingYmd : Values(u, "date") = {d}
         /\ Values(u, "start_date") = {} /\ Values(u, "end_date") = {}

NonEodOption ==
    request.asset_class = "option" /\ request.endpoint \notin {"eod", "greeks/eod"}

\* C28 as stated: the per-day parameters are as above, and the query string
\* of a non-EOD option query reads symbol, interval, date, expiration,
\* strike in that order.
C28_QueryStringOrder ==
    plan_pc = "done" =>
        \A u \in PlannedUrls :
            /\ PerDayParams(u)
            /\ NonEodOption =>
                  Names(u) = <<"symbol", "interval", "date", "expiration", "strike">>

\* C28, amended: the per-day parameters are as above, and the query string
\* of a non-EOD option query reads symbol, interval, expiration, strike,
\* date in that order.
C28_QueryStringAsBuilt ==
    plan_pc = "done" =>
        \A u \in PlannedUrls :
            /\ PerDayParams(u)
            /\ NonEodOption =>
                  Names(u) = <<"symbol", "interval", "expiration", "strike", "date">>

\* The spec's example: the AAPL option quote query at 15m has the URL of
\* 2025-01-02.
C28_Witness ==
    /\ plan_pc = "done"
    /\ request.cls = "OptionRequest"
    /\ request.endpoint = "quote"
    /\ request.interval.value = "15m"
    /\ \E u \in PlannedUrls :
          u.query = <<<<"symbol", "AAPL">>, <<"interval", "15m">>,
                      <<"expiration", "*">>, <<"strike", "*">>,
                      <<"date", "20250102">>>>

\* C29: every URL of an option query carries expiration=* and strike=* with
\* the star as it is, no %2A in any name or value of the URL, and no URL of
\* a stock query carries an expiration or a strike.
C29_LiteralStar ==
    plan_pc = "done" =>
        \A u \in PlannedUrls :
            /\ \A i \in DOMAIN u.query :
                  u.query[i][1] # "%2A" /\ u.query[i][2] # "%2A"
            /\ request.asset_class = "option" =>
                  Values(u, "expiration") = {"*"} /\ Values(u, "strike") = {"*"}
            /\ request.asset_class = "stock" =>
                  Values(u, "expiration") = {} /\ Values(u, "strike") = {}

\* An option query of an EOD endpoint has a URL with both stars.
C29_Witness ==
    /\ plan_pc = "done"
    /\ request.asset_class = "option"
    /\ request.endpoint = "greeks/eod"
    /\ \E u \in PlannedUrls :
          <<"expiration", "*">> \in Range(u.query) /\ <<"strike", "*">> \in Range(u.query)

\* The pairs of asset class and endpoint a query may have.
Permitted ==
    {<<"stock", "eod">>, <<"stock", "quote">>}
    \cup {<<"option", e>> : e \in {"eod", "quote", "trade", "trade_quote",
                                   "greeks/eod", "greeks/first_order"}}

\* C30: constructing a query succeeds for the permitted pairs of asset class
\* and endpoint and raises for every other pair, in the constructor: no GET
\* was made, no key map built and no stage started when it raises.
C30_ValidationExact ==
    plan_pc # "new" =>
        /\ plan_pc = "invalid" <=>
              <<request.asset_class, request.endpoint>> \notin Permitted
        /\ plan_pc = "invalid" =>
              /\ calendar_gets = 0
              /\ outcome = NoResult
              /\ ~client_running
              /\ \A s \in Stages : ~running[s] /\ input_queue[s] = <<>>

\* A stock query for the trade endpoint was refused.
C30_Witness ==
    /\ plan_pc = "invalid"
    /\ request.cls = "StockRequest"
    /\ request.endpoint = "trade"

----------------------------------------------------------------------------
\* C31: when the planner fails (the calendar endpoint is unreachable or its
\* answer cannot be parsed), request_data raises with no FileWriteJob
\* created and no Job submitted to the fetch stage, and the worker threads
\* that _start() spawned find nothing to process afterwards.
C31_PlannerFailureSubmitsNothing ==
    (Raised /\ error = "planner") =>
        /\ Created = {}
        /\ added[HTTP] = {}
        /\ \A s \in Stages : input_queue[s] = <<>> /\ unfinished[s] = 0
        /\ \A s \in Stages : processed[s] = {}

C31_Witness ==
    /\ Raised
    /\ error = "planner"
    /\ \A w \in Workers : wpc[w] = "idle"
    /\ Created = {}
    /\ added[HTTP] = {}

----------------------------------------------------------------------------
\* The requested range is not empty and holds Saturdays and Sundays only.
WeekendOnly ==
    /\ request.start_date <= request.end_date
    /\ \A n \in _generate_date_range(request) : weekday(n) >= 5

\* C32: a query whose whole date range falls on Saturday and Sunday yields
\* an empty key map once the calendar has answered, also when the calendar
\* lists those dates; request_data then creates no FileWriteJob, submits no
\* Job, never enters its except block and, the threads being scheduled,
\* returns normally.
C32_WeekendRangeIsEmpty ==
    /\ []((WeekendOnly /\ plan_pc = "done") =>
            /\ ~outcome.raised
            /\ outcome.key_map = <<>>
            /\ key_map = <<>>
            /\ Created = {}
            /\ added[HTTP] = {}
            /\ ~Stopping)
    /\ ((WeekendOnly /\ plan_pc = "done") ~> Returned)

C32_Witness ==
    /\ request.start_date = 5
    /\ request.end_date = 6
    /\ Ymd(5) = "20250104"
    /\ Ymd(6) = "20250105"
    /\ WeekendOnly
    /\ calendar = Days
    /\ plan_pc = "done"
    /\ outcome.key_map = <<>>
    /\ Returned
    /\ added[HTTP] = {}

----------------------------------------------------------------------------
\* The Jobs handed to the fetch stage whose file_write_job is that of key k.
JobsFor(k) == {j \in added[HTTP] : j[1] = k}

\* The submission loop of request_data has ended.
SubmissionOver == Planned /\ pc \notin {"call", "submit"}

\* C33: every FileWriteJob request_data creates has total_items >= 1, the
\* length of its key's URL list, and when the submission loop has ended
\* exactly total_items Jobs referencing it were submitted to fetch; the
\* planned keys that the existence check did not filter out, and no others,
\* have a FileWriteJob, which is constructed once and not replaced.
C33_JobsMatchTotalItems ==
    /\ [](\A k \in Created :
            /\ k \in PlannedKeys
            /\ fwj[k].total_items >= 1
            /\ fwj[k].total_items = Len(outcome.key_map[k][2])
            /\ Cardinality(JobsFor(k)) <= fwj[k].total_items)
    /\ [](\A j \in added[HTTP] : j[1] \in Created)
    /\ [](SubmissionOver =>
            /\ Created = {k \in PlannedKeys : ~Existing(k)}
            /\ \A k \in Created : Cardinality(JobsFor(k)) = fwj[k].total_items)
    /\ [][\A k \in Keys :
            /\ fwj[k].created =>
                  /\ fwj'[k].created
                  /\ fwj'[k].total_items = fwj[k].total_items
                  /\ fwj'[k].completed_items >= fwj[k].completed_items
            /\ (fwj'[k].created /\ ~fwj[k].created) =>
                  (pc = "submit" /\ JobsFor(k) = {})]_vars

C33_Witness ==
    /\ pc = "wait_http"
    /\ PlannedKeys = {1, 2}
    /\ Existing(1)
    /\ Created = {2}
    /\ fwj[2].total_items = 1
    /\ JobsFor(2) = {<<2, 1>>}
    /\ JobsFor(1) = {}

----------------------------------------------------------------------------
\* C34: a process() call of the decode stage that does not raise advances
\* the parent FileWriteJob's completed_items by exactly one: through
\* mark_item_skipped, appending no table, when the Job's body is absent, and
\* through add_table, appending one table, otherwise; a call that raises and
\* every other step of the pipeline leave the counter, the tables and the
\* skip flag alone.  A Job is put on the finalize queue only after its
\* increment, so completed_items counts the Jobs decoded without raising.
C34_DecodeIncrementsOnce ==
    /\ [][\A j \in AllJobs :
            times'[PROC][j] # times[PROC][j] =>
               LET f == fwj[j[1]]
                   g == fwj'[j[1]]
               IN  /\ times'[PROC][j] = times[PROC][j] + 1
                   /\ j \notin added'[WRITER]
                   /\ IF Len(caught'[PROC]) # Len(caught[PROC])
                      THEN g = f
                      ELSE /\ g.completed_items = f.completed_items + 1
                           /\ IF csv_buffer[j] = None
                              THEN g.skipped_items /\ g.tables = f.tables
                              ELSE /\ g.tables = Append(f.tables, j[2])
                                   /\ g.skipped_items = f.skipped_items]_vars
    /\ [][(times'[PROC] = times[PROC]) =>
            \A k \in Created :
               /\ fwj'[k].completed_items = fwj[k].completed_items
               /\ fwj'[k].tables = fwj[k].tables
               /\ fwj'[k].skipped_items = fwj[k].skipped_items]_vars
    /\ [](\A j \in added[WRITER] : Decoded(j) /\ times[PROC][j] = 1)
    /\ [](\A k \in Created :
            fwj[k].completed_items = Cardinality({j \in JobsOf(k) : Decoded(j)}))

C34_Witness ==
    /\ fwj[1].total_items = 2
    /\ fwj[1].completed_items = 2
    /\ fwj[1].skipped_items
    /\ Len(fwj[1].tables) = 1
    /\ added[WRITER] = {<<1, 1>>, <<1, 2>>}

----------------------------------------------------------------------------
\* Every Job of key k's FileWriteJob passed fetch and decode without error
\* and none was skipped.
CompleteNoSkip(k) ==
    /\ fwj[k].created
    /\ \A j \in JobsOf(k) : Decoded(j)
    /\ ~fwj[k].skipped_items

\* C35: a FileWriteJob all of whose Jobs passed fetch and decode without
\* error is seen complete by the finalize stage: once all its Jobs have been
\* processed there, at least one of them found completed true (it was put,
\* or seen skipped), and when wait_for_completion on the finalize stage
\* returns, every such file without skips was put at least once and, where
\* no put_object raised, is in the bucket.
C35_CompleteFileIsObserved ==
    /\ [](\A k \in Created :
            (JobsOf(k) \subseteq processed[WRITER]) =>
               /\ fwj[k].completed
               /\ put_calls[k] + skip_seen[k] >= 1)
    /\ [][(pc = "wait_writer" /\ pc' # pc) =>
            \A k \in Created :
               CompleteNoSkip(k) =>
                  /\ put_calls[k] >= 1
                  /\ (exception[WRITER] = NoJob => k \in store)]_vars

C35_Witness ==
    /\ Returned
    /\ fwj[1].total_items = 2
    /\ CompleteNoSkip(1)
    /\ put_calls[1] = 1
    /\ 1 \in store
    /\ 1 \notin store_at_call

----------------------------------------------------------------------------
\* s is t or t with elements appended.
IsPrefix(s, t) == Len(s) <= Len(t) /\ \A i \in 1..Len(s) : s[i] = t[i]

\* C36: on every step of the pipeline a FileWriteJob's completed and
\* skipped_items do not go from true to false, its completed_items does not
\* decrease, its tables are only appended to, and once completed is true
\* completed_items, tables and skipped_items change no more.
C36_MonotoneAndFrozen ==
    [][\A k \in Created :
          /\ fwj'[k].created
          /\ fwj[k].completed => fwj'[k].completed
          /\ fwj[k].skipped_items => fwj'[k].skipped_items
          /\ fwj'[k].completed_items >= fwj[k].completed_items
          /\ IsPrefix(fwj[k].tables, fwj'[k].tables)
          /\ fwj[k].completed =>
                /\ fwj'[k].completed_items = fwj[k].completed_items
                /\ fwj'[k].tables = fwj[k].tables
                /\ fwj'[k].skipped_items = fwj[k].skipped_items]_vars

C36_Witness ==
    /\ Returned
    /\ fwj[1].total_items = 2
    /\ fwj[1].completed
    /\ fwj[1].skipped_items
    /\ Len(fwj[1].tables) = 1
    /\ JobsOf(1) \subseteq processed[WRITER]

----------------------------------------------------------------------------
\* C37: the step in which a worker's process() raises clears the _running
\* flag of its own stage and latches the exception there if none is latched,
\* and leaves the _running flag, the latch, the queue and the unfinished
\* count of every other stage, and its own queue, as they were.  A stage's
\* flag is cleared only by an exception of its own worker or by stop(), so
\* before request_data enters its except block every stage none of whose
\* workers raised is still running with no exception latched.
C37_ExceptionTouchesOwnStage ==
    /\ [][\A s \in Stages :
            caught'[s] # caught[s] =>
               /\ ~running'[s]
               /\ exception'[s] = (IF exception[s] = NoJob
                                   THEN caught'[s][Len(caught'[s])]
                                   ELSE exception[s])
               /\ input_queue' = input_queue
               /\ unfinished' = unfinished
               /\ \A t \in Stages \ {s} :
                     /\ running'[t] = running[t]
                     /\ exception'[t] = exception[t]
                     /\ caught'[t] = caught[t]]_vars
    /\ [][\A t \in Stages :
            (running[t] /\ ~running'[t]) =>
               (caught'[t] # caught[t] \/ pc = StopPc(t))]_vars
    /\ [](\A t \in Stages :
            (pc # "call" /\ ~Stopping /\ caught[t] = <<>>) =>
               (running[t] /\ exception[t] = NoJob))

C37_Witness ==
    /\ exception[HTTP] # NoJob
    /\ ~running[HTTP]
    /\ ~Stopping
    /\ running[PROC]
    /\ running[WRITER]
    /\ exception[PROC] = NoJob
    /\ exception[WRITER] = NoJob
    /\ input_queue[PROC] # <<>>

----------------------------------------------------------------------------
\* C38: once a stage's _running flag has been cleared, by a worker's except
\* block or by stop(), every thread of the stage eventually exits, and no
\* thread of the stage takes a Job from the queue, to call process() on it,
\* while the flag is cleared.
C38_ClearedFlagStopsWorkers ==
    /\ [][\A i \in Threads :
            (tpc[i] = "poll" /\ tpc'[i] = "process") => running[TheStage]]_vars
    /\ \A i \in Threads :
          [](( ~running[TheStage] /\ tpc[i] # "unborn") => <>(tpc[i] = "exit"))

----------------------------------------------------------------------------
\* C39: whatever the sequence of start(), add_job(), failures of workers and
\* stop() calls, a stop() returning while a thread is still inside process()
\* included, the threads of a stage that are in the loop of _work are never
\* more than its num_threads.
C39_LiveThreadsBounded == Cardinality(LiveThreads) <= num_threads(TheStage)

----------------------------------------------------------------------------
\* Every upstream response given so far was a success with a parseable body.
AllSucceed == \A j \in AllJobs : response[j] \in {"pending", "ok"}

\* request_data was called again after a call that raised and went through
\* _stop(): only HTTPWorker.stop closes the httpx client.
SecondCallAfterStop == prior.outcome = "raised" /\ closed

\* C40: a request_data call that raised from a stage's exception has left
\* every stage stopped with an empty queue, an unfinished-task count of 0 and
\* an open HTTP client, and a later request_data call on the same client
\* whose upstream responses all succeed eventually returns normally.
C40_RestartAfterRaise ==
    /\ []((Raised /\ error = "stage") =>
            /\ ~closed
            /\ \A s \in Stages :
                  /\ ~running[s]
                  /\ input_queue[s] = <<>>
                  /\ unfinished[s] = 0)
    /\ (SecondCallAfterStop ~> (Returned \/ ~AllSucceed))

====
